---------------------------- MODULE Spec2Model ----------------------------
(***************************************************************************)
(* Model of src/traffic_monitor.py: the TrafficMonitor class.              *)
(*                                                                         *)
(* Python values are represented as follows.                               *)
(*   str            a TLA+ string (Len, SubSeq and \o work on strings)     *)
(*   Optional[T]    None is <<>>, a value v is <<v>>                       *)
(*   dict           a record                                               *)
(*   an exception   a record [raises |-> TRUE] in place of the value the   *)
(*                  call would have returned                               *)
(***************************************************************************)
EXTENDS Integers, Sequences, FiniteSets, TLC

VARIABLES
    pc,               \* position of the process in run / scrape_google_maps
    route_direction,  \* run's argument, then the resolved direction
    current_hour,     \* now.hour read by determine_direction_from_time
    playwright,       \* the sync_playwright() scope: "none", "running", "stopped"
    browser,          \* the launched browser: "none", "open", "closed"
    page,             \* the rendered page the browser holds (Optional)
    data,             \* the Optional[Dict] returned by the extraction / the scrape
    primary,          \* the primary duration strategy's candidate and query count
    inserts,          \* the records handed to supabase insert, in order
    navigations,      \* number of page.goto calls
    report,           \* what run printed last
    arg_form,         \* how the text given to extract_duration_minutes was built
    arg_text,         \* the text given to extract_duration_minutes
    parsed            \* what extract_duration_minutes returned

vars == <<pc, route_direction, current_hour, playwright, browser, page, data,
          primary, inserts, navigations, report, arg_form, arg_text, parsed>>

None == <<>>
Some(v) == <<v>>

-----------------------------------------------------------------------------
(* Bounds of the model.                                                    *)

MaxHours == 2
MaxMinutes == 2
MaxMatched == 3

-----------------------------------------------------------------------------
(* Characters and strings.                                                 *)

Digits == "0123456789"
UpperAlpha == "ABCDEFGHIJKLMNOPQRSTUVWXYZ"
LowerAlpha == "abcdefghijklmnopqrstuvwxyz"

At(t, i) == SubSeq(t, i, i)

CharsOf(t) == {At(t, i) : i \in 1..Len(t)}

DigitChars == CharsOf(Digits)
UpperChars == CharsOf(UpperAlpha)
WordChars == CharsOf(Digits) \cup CharsOf(UpperAlpha) \cup CharsOf(LowerAlpha) \cup {"_"}

IsDigit(c) == c \in DigitChars

\* \s of the re module, for the whitespace the model's texts use
IsSpace(c) == c \in {" ", "\n", "\t"}

\* \w of the re module: letters, digits and the underscore
IsWord(c) == c \in WordChars

LowerOfUpper ==
    [c \in UpperChars |->
        At(LowerAlpha, CHOOSE i \in 1..Len(UpperAlpha) : At(UpperAlpha, i) = c)]

LowerChar(c) == IF c \in UpperChars THEN LowerOfUpper[c] ELSE c

RECURSIVE Lower(_)
\* str.lower()
Lower(t) == IF t = "" THEN "" ELSE LowerChar(At(t, 1)) \o Lower(Tail(t))

\* the `in` operator on strings
Contains(t, sub) ==
    \E i \in 1..(Len(t) - Len(sub) + 1) : SubSeq(t, i, i + Len(sub) - 1) = sub

RECURSIVE LStrip(_)
LStrip(t) == IF t # "" /\ IsSpace(At(t, 1)) THEN LStrip(Tail(t)) ELSE t

RECURSIVE RStrip(_)
RStrip(t) ==
    IF t # "" /\ IsSpace(At(t, Len(t))) THEN RStrip(SubSeq(t, 1, Len(t) - 1)) ELSE t

\* str.strip()
Strip(t) == RStrip(LStrip(t))

DigitValues == [c \in DigitChars |-> (CHOOSE i \in 1..Len(Digits) : At(Digits, i) = c) - 1]

DigitValue(c) == DigitValues[c]

RECURSIVE ToInt(_)
\* int() of a string of decimal digits
ToInt(ds) ==
    IF ds = "" THEN 0
    ELSE 10 * ToInt(SubSeq(ds, 1, Len(ds) - 1)) + DigitValue(At(ds, Len(ds)))

RECURSIVE ToStr(_)
\* str() of a non-negative integer
ToStr(n) == IF n < 10 THEN At(Digits, n + 1) ELSE ToStr(n \div 10) \o At(Digits, (n % 10) + 1)

-----------------------------------------------------------------------------
(* Regular expressions of the parser.                                      *)

RECURSIVE SkipDigits(_, _)
\* the position after the longest run of \d starting at i
SkipDigits(t, i) == IF i <= Len(t) /\ IsDigit(At(t, i)) THEN SkipDigits(t, i + 1) ELSE i

RECURSIVE SkipSpaces(_, _)
\* the position after the longest run of \s starting at i
SkipSpaces(t, i) == IF i <= Len(t) /\ IsSpace(At(t, i)) THEN SkipSpaces(t, i + 1) ELSE i

\* the literal lit matches at i, ignoring case; the position after it, or 0
LitEnd(t, i, lit) ==
    IF i + Len(lit) - 1 <= Len(t) /\ Lower(SubSeq(t, i, i + Len(lit) - 1)) = lit
    THEN i + Len(lit)
    ELSE 0

\* (\d+)\s*<unit> matches at i, ignoring case: digits, whitespace and the
\* unit's first letter are disjoint classes, so the greedy match is the only one
NumUnitAt(t, i, unit) ==
    /\ SkipDigits(t, i) > i
    /\ LitEnd(t, SkipSpaces(t, SkipDigits(t, i)), unit) # 0

RECURSIVE FirstNumUnit(_, _, _)
\* the leftmost position from i on where the pattern matches, or 0
FirstNumUnit(t, i, unit) ==
    IF i > Len(t) THEN 0
    ELSE IF NumUnitAt(t, i, unit) THEN i
    ELSE FirstNumUnit(t, i + 1, unit)

\* re.search(r'(\d+)\s*<unit>', t, re.IGNORECASE): group(1) of the leftmost
\* match, or None
SearchNumUnit(t, unit) ==
    IF FirstNumUnit(t, 1, unit) # 0
    THEN Some(SubSeq(t, FirstNumUnit(t, 1, unit),
                     SkipDigits(t, FirstNumUnit(t, 1, unit)) - 1))
    ELSE None

extract_duration_minutes_NoZeroCheck(duration_text) ==
    LET hour_match == SearchNumUnit(duration_text, "h")
        min_match == SearchNumUnit(duration_text, "min")
        total_minutes ==
            (IF hour_match # None THEN ToInt(hour_match[1]) * 60 ELSE 0)
            + (IF min_match # None THEN ToInt(min_match[1]) ELSE 0)
    IN  Some(total_minutes)

extract_duration_minutes_HoursAsMinutes(duration_text) ==
    LET hour_match == SearchNumUnit(duration_text, "h")
        min_match == SearchNumUnit(duration_text, "min")
        total_minutes ==
            (IF hour_match # None THEN ToInt(hour_match[1]) ELSE 0)
            + (IF min_match # None THEN ToInt(min_match[1]) ELSE 0)
    IN  IF total_minutes > 0 THEN Some(total_minutes) ELSE None

\* TrafficMonitor.extract_duration_minutes
extract_duration_minutes(duration_text) ==
    LET hour_match == SearchNumUnit(duration_text, "h")
        min_match == SearchNumUnit(duration_text, "min")
        total_minutes ==
            (IF hour_match # None THEN ToInt(hour_match[1]) * 60 ELSE 0)
            + (IF min_match # None THEN ToInt(min_match[1]) ELSE 0)
    IN  IF total_minutes > 0 THEN Some(total_minutes) ELSE None

-----------------------------------------------------------------------------
(* The rendered page, as the extraction sees it through Playwright.          *)
(*   pg.settle     page.wait_for_timeout(3000)                              *)
(*   pg.query[s]   page.query_selector_all(s): a sequence of elements, each *)
(*                 the outcome of its inner_text()                          *)
(*   pg.content    page.content()                                           *)
(*   pg.body       page.inner_text('body')                                  *)
(* Each is the outcome of the call: Raise, or Returns(value).               *)

Raise == [raises |-> TRUE]
Returns(v) == [raises |-> FALSE, value |-> v]

duration_selectors ==
    << "div.Fk3sm.fontHeadlineSmall",
       "div[jstcache=\"3\"]",
       "h1.TnqQD-ZMv3u-headline-4-text",
       "div.XdKEzd",
       "span.delay" >>

distance_selectors ==
    << "div.Fk3sm.fontBodyMedium",
       "div.ivN21e.tUEI8e.fontBodyMedium" >>

DurationNeedles == {"min", "hour"}
DistanceNeedles == {"km", "mi"}

\* the test of lines 167 and 188: one of the needles is in text.lower()
LooksLike(text, needles) == \E n \in needles : Contains(Lower(text), n)

RECURSIVE ScanElements(_, _, _)
\* the inner for loop from element j on: Raise when an inner_text() raises,
\* else Returns(the first accepted stripped text, or None)
ScanElements(elements, j, needles) ==
    IF j > Len(elements) THEN Returns(None)
    ELSE IF elements[j].raises THEN Raise
    ELSE LET text == Strip(elements[j].value)
         IN  IF LooksLike(text, needles)
             THEN Returns(Some(text))
             ELSE ScanElements(elements, j + 1, needles)

RECURSIVE ScanSelectors_WholeList(_, _, _, _)
\* without the break of lines 170-171: a later selector's match overrides
ScanSelectors_WholeList(pg, selectors, i, needles) ==
    IF i > Len(selectors) THEN [text |-> None, queried |-> Len(selectors)]
    ELSE LET q == pg.query[selectors[i]]
             found == IF q.raises THEN Raise ELSE ScanElements(q.value, 1, needles)
             rest == ScanSelectors_WholeList(pg, selectors, i + 1, needles)
         IN  IF found.raises \/ found.value = None \/ rest.text # None
             THEN rest
             ELSE [text |-> found.value, queried |-> Len(selectors)]

RECURSIVE ScanSelectors(_, _, _, _)
\* the outer for loop from selector i on, with its try / except: continue.
\* text is the candidate the loop ends with, queried the number of selectors
\* it has passed to query_selector_all
ScanSelectors(pg, selectors, i, needles) ==
    IF i > Len(selectors) THEN [text |-> None, queried |-> Len(selectors)]
    ELSE LET q == pg.query[selectors[i]]
             found == IF q.raises THEN Raise ELSE ScanElements(q.value, 1, needles)
         IN  IF found.raises \/ found.value = None
             THEN ScanSelectors(pg, selectors, i + 1, needles)
             ELSE [text |-> found.value, queried |-> i]

\* lines 151-173: the primary duration strategy
PrimaryDuration(pg) == ScanSelectors(pg, duration_selectors, 1, DurationNeedles)

\* lines 175-194: the distance strategy
PrimaryDistance(pg) == ScanSelectors(pg, distance_selectors, 1, DistanceNeedles)

TrafficStatus_LightFirst(page_content) ==
    IF Contains(Lower(page_content), "traffic")
    THEN IF Contains(Lower(page_content), "light traffic") THEN "Light traffic"
         ELSE IF Contains(Lower(page_content), "moderate traffic") THEN "Moderate traffic"
         ELSE IF Contains(Lower(page_content), "heavy traffic") THEN "Heavy traffic"
         ELSE "Unknown"
    ELSE "Unknown"

\* lines 196-205
TrafficStatus(page_content) ==
    IF Contains(Lower(page_content), "traffic")
    THEN IF Contains(Lower(page_content), "heavy traffic") THEN "Heavy traffic"
         ELSE IF Contains(Lower(page_content), "moderate traffic") THEN "Moderate traffic"
         ELSE IF Contains(Lower(page_content), "light traffic") THEN "Light traffic"
         ELSE "Unknown"
    ELSE "Unknown"

-----------------------------------------------------------------------------
\* The fallback pattern \b(\d+\s*h(?:our)?s?\s*)?(\d+\s*min)\b, ignoring case.
\* Every greedy choice in it is the only one that can succeed: what must
\* follow a run of digits, a run of whitespace, "our" or "s" is never in the
\* class just left.

WordAt(t, i) == i >= 1 /\ i <= Len(t) /\ IsWord(At(t, i))

\* \b between the characters i-1 and i
WordBoundary(t, i) == WordAt(t, i - 1) # WordAt(t, i)

\* (\d+\s*h(?:our)?s?\s*) at i: the position after it, or 0
HourGroupEnd(t, i) ==
    LET h == LitEnd(t, SkipSpaces(t, SkipDigits(t, i)), "h")
        o == IF LitEnd(t, h, "our") # 0 THEN LitEnd(t, h, "our") ELSE h
        s == IF LitEnd(t, o, "s") # 0 THEN LitEnd(t, o, "s") ELSE o
    IN  IF SkipDigits(t, i) > i /\ h # 0 THEN SkipSpaces(t, s) ELSE 0

\* (\d+\s*min) at i: the position after it, or 0
MinGroupEnd(t, i) ==
    IF SkipDigits(t, i) > i THEN LitEnd(t, SkipSpaces(t, SkipDigits(t, i)), "min") ELSE 0

\* the pattern at i: None, or the two groups of the match ("" for a group
\* that took no part)
TimePatternAt(t, i) ==
    LET g1 == HourGroupEnd(t, i)
        g2 == IF g1 # 0 THEN MinGroupEnd(t, g1) ELSE 0
        m == MinGroupEnd(t, i)
    IN  IF ~WordBoundary(t, i) THEN None
        ELSE IF g2 # 0 /\ WordBoundary(t, g2)
             THEN Some(<<SubSeq(t, i, g1 - 1), SubSeq(t, g1, g2 - 1)>>)
        ELSE IF m # 0 /\ WordBoundary(t, m)
             THEN Some(<<"", SubSeq(t, i, m - 1)>>)
        ELSE None

RECURSIVE FirstTimeMatchFrom(_, _)
\* the groups of the leftmost match from i on, or None
FirstTimeMatchFrom(t, i) ==
    IF i > Len(t) THEN None
    ELSE IF TimePatternAt(t, i) # None THEN TimePatternAt(t, i)
    ELSE FirstTimeMatchFrom(t, i + 1)

\* re.findall(time_pattern, body_text, re.IGNORECASE)[:1]: None when there is
\* no match, else the groups of the leftmost one
FirstTimeMatch(t) == FirstTimeMatchFrom(t, 1)

\* ' '.join(filter(None, groups)).strip()
JoinGroups(groups) ==
    Strip(IF groups[1] = "" THEN groups[2]
          ELSE IF groups[2] = "" THEN groups[1]
          ELSE groups[1] \o " " \o groups[2])

\* `if duration_minutes:` on an Optional[int]
Truthy(minutes) == minutes # None /\ minutes[1] # 0

Extraction(duration_text, duration_minutes, distance_text, traffic_status) ==
    [ duration_text |-> duration_text,
      duration_minutes |-> duration_minutes,
      distance |-> IF distance_text # None THEN distance_text[1] ELSE "N/A",
      traffic_status |-> traffic_status ]

\* lines 218-238: the fallback on the body text
Fallback(pg, distance_text, traffic_status) ==
    IF pg.body.raises THEN None
    ELSE LET matches == FirstTimeMatch(pg.body.value)
         IN  IF matches = None THEN None
             ELSE LET duration_text == JoinGroups(matches[1])
                      duration_minutes == extract_duration_minutes(duration_text)
                  IN  IF Truthy(duration_minutes)
                      THEN Some(Extraction(duration_text, duration_minutes[1],
                                           distance_text, traffic_status))
                      ELSE None

\* TrafficMonitor._extract_travel_data: any exception outside the two selector
\* loops reaches the outer except and makes the result None
extract_travel_data(pg) ==
    IF pg.settle.raises \/ pg.content.raises THEN None
    ELSE LET duration_text == PrimaryDuration(pg).text
             distance_text == PrimaryDistance(pg).text
             traffic_status == TrafficStatus(pg.content.value)
             duration_minutes ==
                 IF duration_text # None THEN extract_duration_minutes(duration_text[1])
                 ELSE None
         IN  IF duration_text # None /\ Truthy(duration_minutes)
             THEN Some(Extraction(duration_text[1], duration_minutes[1],
                                  distance_text, traffic_status))
             ELSE Fallback(pg, distance_text, traffic_status)

\* what the extraction has done of the primary duration strategy when it
\* returns: nothing when the settle wait raised
PrimaryTrace(pg) ==
    IF pg.settle.raises THEN [text |-> None, queried |-> 0] ELSE PrimaryDuration(pg)

-----------------------------------------------------------------------------
(* The pages the model renders.                                            *)

AllSelectors ==
    {duration_selectors[i] : i \in DOMAIN duration_selectors}
        \cup {distance_selectors[i] : i \in DOMAIN distance_selectors}

\* a page whose duration selectors answer durations[1..5] and whose distance
\* selectors answer distances[1..2]
MakePage(settle, durations, distances, content, body) ==
    [ settle |-> settle,
      query |-> [s \in AllSelectors |->
                   IF \E i \in DOMAIN duration_selectors : duration_selectors[i] = s
                   THEN durations[CHOOSE i \in DOMAIN duration_selectors :
                                      duration_selectors[i] = s]
                   ELSE distances[CHOOSE i \in DOMAIN distance_selectors :
                                      distance_selectors[i] = s]],
      content |-> content,
      body |-> body ]

NoElements == Returns(<<>>)
NoDurations == [i \in DOMAIN duration_selectors |-> NoElements]
NoDistances == [i \in DOMAIN distance_selectors |-> NoElements]
PlainContent == Returns("<html><body>Fastest route</body></html>")
PlainBody == Returns("Fastest route")
WheelerBody == "Travel is about 1 h 10 min by two-wheeler"

\* element texts under the duration selectors: accepted and parsed, accepted
\* with other case and padding, not accepted
ElementOutcomes == {Raise, Returns("25 min"), Returns(" 1 Hour 5 MIN\n"), Returns("Details")}

\* what a selector can answer with c elements; a raising query counts as one
OutcomesOfCost(c) ==
    (IF c = 1 THEN {Raise} ELSE {}) \cup {Returns(es) : es \in [1..c -> ElementOutcomes]}

\* how many elements each duration selector matches, at most `budget` in all
CostVectors(budget) ==
    {cv \in [DOMAIN duration_selectors -> 0..budget] :
        cv[1] + cv[2] + cv[3] + cv[4] + cv[5] <= budget}

\* a page that differs from the plain one in what the duration selectors match
SelectorPage(durations) ==
    MakePage(Returns(TRUE), durations, NoDistances, PlainContent, PlainBody)

Contents ==
    { "<html></html>",
      "<div>Usual traffic</div>",
      "<div>Light traffic</div>",
      "<div>MODERATE TRAFFIC</div>",
      "<div>Heavy Traffic</div>",
      "<div>light traffic</div><div>heavy traffic</div>",
      "<div>Light traffic</div><div>Moderate traffic</div>",
      "<div>moderate traffic, later heavy traffic</div>",
      "<div>light traffic</div><p>moderate traffic</p><p>HEAVY traffic</p>",
      "<div>heavy</div><div>lighttraffic</div>" }

\* pages that differ in their content
ContentPages ==
    {MakePage(Returns(TRUE), [NoDurations EXCEPT ![1] = Returns(<<Returns("25 min")>>)],
              NoDistances, c, PlainBody) :
        c \in {Raise} \cup {Returns(t) : t \in Contents}}

Bodies ==
    { "", "Fastest route", WheelerBody, "25 mins away", "abc25 min", "1h10min",
      "1 Hours 5 MIN.", "x 2 h 3 mins 4 min", "1 h\n10 min", "7 h 8 hours 9 min",
      "0 min then 5 min", "12 3h 4 min", "3 h45 min", "1 hr 5 min", "_5 min",
      "0 h 0 min", "via NH 44, 35 min", "2 h" }

\* pages on which no duration selector matches and that differ in their body
BodyPages ==
    {MakePage(Returns(TRUE), NoDurations, NoDistances, PlainContent, b) :
        b \in {Raise} \cup {Returns(t) : t \in Bodies}}

DurationAnswers ==
    { NoDurations,
      [NoDurations EXCEPT ![1] = Returns(<<Returns("25 min")>>)],
      [NoDurations EXCEPT ![2] = Returns(<<Returns("Details"), Returns("1 hour 15 min")>>)],
      [NoDurations EXCEPT ![1] = Returns(<<Returns("0 min")>>)],
      [NoDurations EXCEPT ![3] = Returns(<<Returns("a few mins")>>)],
      [NoDurations EXCEPT ![1] = Raise, ![4] = Returns(<<Returns("40 min")>>)],
      [NoDurations EXCEPT ![1] = Returns(<<Raise, Returns("25 min")>>)] }

DistanceAnswers ==
    { NoDistances,
      [NoDistances EXCEPT ![1] = Returns(<<Returns("12.4 km")>>)],
      [NoDistances EXCEPT ![1] = Returns(<<Returns("Details")>>),
                          ![2] = Returns(<<Returns("7.7 miles")>>)],
      [NoDistances EXCEPT ![1] = Raise],
      [NoDistances EXCEPT ![1] = Returns(<<Raise>>), ![2] = Raise] }

\* pages that combine the outcomes of every step of the extraction
MixedPages ==
    {MakePage(w, d, k, c, b) :
        w \in {Raise, Returns(TRUE)},
        d \in DurationAnswers,
        k \in DistanceAnswers,
        c \in {Raise, PlainContent, Returns("<div>Light traffic</div>")},
        b \in {Raise, PlainBody, Returns(WheelerBody), Returns("0 min then 5 min")}}

\* the pages that differ in something else than the duration selectors' matches
OtherPages == ContentPages \cup BodyPages \cup MixedPages

\* the pages a whole run is checked on
RunPages ==
    {MakePage(Returns(TRUE), d, k, c, b) :
        d \in DurationAnswers,
        k \in {NoDistances, [NoDistances EXCEPT ![1] = Returns(<<Returns("12.4 km")>>)]},
        c \in {Raise, Returns("<div>Light traffic</div>")},
        b \in {PlainBody, Returns(WheelerBody)}}

-----------------------------------------------------------------------------
(* The texts the parser is checked on: an optional hour component and an   *)
(* optional minute component inside a sentence.                            *)

NoForm == [pre |-> "", hours |-> None, hsp |-> "", hunit |-> "", gap |-> "",
           minutes |-> None, msp |-> "", munit |-> "", post |-> ""]

HourCounts == (0..MaxHours) \cup {12}
MinuteCounts == (0..MaxMinutes) \cup {10, 59}
HourUnits == {"h", "hour", "Hours"}
MinuteUnits == {"min", "MIN"}
Prefixes == {"", "about ", "Route 4 has "}
Suffixes == {"", " by two-wheeler", " (3 h by car)", " or 9 min walk"}

Forms ==
    { [NoForm EXCEPT !.pre = pre, !.post = post] : pre \in Prefixes, post \in Suffixes }
    \cup
    { [NoForm EXCEPT !.pre = pre, !.post = post,
                     !.hours = Some(n), !.hsp = hsp, !.hunit = hunit] :
        pre \in Prefixes, post \in Suffixes,
        n \in HourCounts, hsp \in {"", " "}, hunit \in HourUnits }
    \cup
    { [NoForm EXCEPT !.pre = pre, !.post = post,
                     !.minutes = Some(m), !.msp = msp, !.munit = munit] :
        pre \in Prefixes, post \in Suffixes,
        m \in MinuteCounts, msp \in {"", " "}, munit \in MinuteUnits }
    \cup
    { [pre |-> pre, hours |-> Some(n), hsp |-> hsp, hunit |-> hunit, gap |-> gap,
       minutes |-> Some(m), msp |-> msp, munit |-> munit, post |-> post] :
        pre \in Prefixes, post \in Suffixes,
        n \in HourCounts, hsp \in {"", " "}, hunit \in HourUnits, gap \in {"", " "},
        m \in MinuteCounts, msp \in {"", " "}, munit \in MinuteUnits }

Render(f) ==
    f.pre
    \o (IF f.hours # None THEN ToStr(f.hours[1]) \o f.hsp \o f.hunit ELSE "")
    \o f.gap
    \o (IF f.minutes # None THEN ToStr(f.minutes[1]) \o f.msp \o f.munit ELSE "")
    \o f.post

-----------------------------------------------------------------------------
(* Configuration and the direction resolver.                               *)

MORNING_WINDOW == <<10, 12>>
EVENING_WINDOW == <<16, 18>>

LocalHours == 0..23

determine_direction_from_time_EveningFirst(hour) ==
    IF EVENING_WINDOW[1] <= hour /\ hour <= EVENING_WINDOW[2] THEN "office_to_home"
    ELSE IF MORNING_WINDOW[1] <= hour /\ hour < MORNING_WINDOW[2] THEN "home_to_office"
    ELSE "home_to_office"

\* TrafficMonitor.determine_direction_from_time, of now.hour
determine_direction_from_time(hour) ==
    IF MORNING_WINDOW[1] <= hour /\ hour < MORNING_WINDOW[2] THEN "home_to_office"
    ELSE IF EVENING_WINDOW[1] <= hour /\ hour < EVENING_WINDOW[2] THEN "office_to_home"
    ELSE "home_to_office"

ValidDirection_Any(direction) == TRUE

\* line 280
ValidDirection(direction) == direction \in {"home_to_office", "office_to_home"}

\* the strings run is called with; main passes only the first two
RunArguments == {"home_to_office", "office_to_home", "auto", "", "Home_To_Office"}

-----------------------------------------------------------------------------
(* TrafficMonitor.run and the calls it makes.                              *)

NoTrace == [text |-> None, queried |-> 0]

Init ==
    /\ pc = "start"
    /\ route_direction = None
    /\ current_hour = None
    /\ playwright = "none"
    /\ browser = "none"
    /\ page = None
    /\ data = None
    /\ primary = NoTrace
    /\ inserts = <<>>
    /\ navigations = 0
    /\ report = ""
    /\ arg_form = NoForm
    /\ arg_text = ""
    /\ parsed = None

ParserVars == <<arg_form, arg_text, parsed>>

\* lines 279-294: validation, then the choice of origin and destination
Begin(direction) ==
    /\ route_direction' = Some(direction)
    /\ IF ValidDirection(direction)
       THEN pc' = "scrape" /\ report' = report
       ELSE pc' = "done" /\ report' = "invalid direction"
    /\ UNCHANGED <<playwright, browser, page, data, primary, inserts, navigations,
                   ParserVars>>

\* run(None): the direction comes from the clock
RunAuto ==
    /\ pc = "start"
    /\ \E hour \in LocalHours :
          /\ current_hour' = Some(hour)
          /\ Begin(determine_direction_from_time(hour))

\* run(direction)
RunWith ==
    /\ pc = "start"
    /\ \E direction \in RunArguments :
          /\ current_hour' = current_hour
          /\ Begin(direction)

BrowserAfterStop_Leaked(b) == b

\* the end of the `with sync_playwright()` block of line 105: stopping
\* Playwright ends the browsers it launched
BrowserAfterStop(b) == IF b = "open" THEN "closed" ELSE b

\* lines 141-143: an exception raised inside the with block leaves the block
\* and is caught; the scrape returns None
ScrapeRaises ==
    /\ playwright' = "stopped"
    /\ browser' = BrowserAfterStop(browser)
    /\ data' = None
    /\ pc' = "scraped"

\* line 105: sync_playwright().__enter__()
EnterPlaywright ==
    /\ pc = "scrape"
    /\ \/ playwright' = "running" /\ pc' = "launch" /\ data' = data
       \/ playwright' = playwright /\ pc' = "scraped" /\ data' = None
    /\ UNCHANGED <<route_direction, current_hour, browser, page, primary, inserts,
                   navigations, report, ParserVars>>

\* line 108: p.chromium.launch
Launch ==
    /\ pc = "launch"
    /\ \/ browser' = "open" /\ pc' = "context" /\ UNCHANGED <<playwright, data>>
       \/ ScrapeRaises
    /\ UNCHANGED <<route_direction, current_hour, page, primary, inserts, navigations,
                   report, ParserVars>>

\* lines 109-113: browser.new_context, then context.new_page
NewContextAndPage ==
    /\ pc \in {"context", "newpage"}
    /\ \/ /\ pc' = IF pc = "context" THEN "newpage" ELSE "goto"
          /\ UNCHANGED <<playwright, browser, data>>
       \/ ScrapeRaises
    /\ UNCHANGED <<route_direction, current_hour, page, primary, inserts, navigations,
                   report, ParserVars>>

\* lines 118-127: page.goto, then the settle sleep
Goto ==
    /\ pc = "goto"
    /\ navigations' = navigations + 1
    /\ \/ /\ \E pg \in RunPages : page' = Some(pg)
          /\ pc' = "extract"
          /\ UNCHANGED <<playwright, browser, data>>
       \/ ScrapeRaises /\ page' = page
    /\ UNCHANGED <<route_direction, current_hour, primary, inserts, report, ParserVars>>

\* line 130: data = self._extract_travel_data(page)
Extract ==
    /\ pc = "extract"
    /\ data' = extract_travel_data(page[1])
    /\ primary' = PrimaryTrace(page[1])
    /\ pc' = "close"
    /\ UNCHANGED <<route_direction, current_hour, playwright, browser, page, inserts,
                   navigations, report, ParserVars>>

\* lines 132-139: browser.close(), the end of the with block, the return
CloseAndReturn ==
    /\ pc = "close"
    /\ \/ /\ browser' = "closed"
          /\ playwright' = "stopped"
          /\ data' = data
          /\ pc' = "scraped"
       \/ ScrapeRaises
    /\ UNCHANGED <<route_direction, current_hour, page, primary, inserts, navigations,
                   report, ParserVars>>

\* lines 249-257, without the clock's timestamp and day_of_week
NewRecord(direction, d) ==
    [ route_direction |-> direction,
      duration_minutes |-> d.duration_minutes,
      duration_text |-> d.duration_text,
      distance |-> d.distance,
      traffic_status |-> d.traffic_status ]

Finish_Retrying ==
    /\ pc = "scraped"
    /\ pc' = "done"
    /\ IF data # None
       THEN \/ /\ inserts' = Append(inserts, NewRecord(route_direction[1], data[1]))
               /\ report' = "saved"
            \/ /\ inserts' = Append(Append(inserts, NewRecord(route_direction[1], data[1])),
                                    NewRecord(route_direction[1], data[1]))
               /\ report' = "failed to save"
       ELSE inserts' = inserts /\ report' = "failed to collect"
    /\ UNCHANGED <<route_direction, current_hour, playwright, browser, page, data,
                   primary, navigations, ParserVars>>

\* lines 299-310: save_to_supabase when the scrape returned data; the insert
\* of line 259 succeeds or raises
Finish ==
    /\ pc = "scraped"
    /\ pc' = "done"
    /\ IF data # None
       THEN /\ inserts' = Append(inserts, NewRecord(route_direction[1], data[1]))
            /\ \/ report' = "saved"
               \/ report' = "failed to save"
       ELSE inserts' = inserts /\ report' = "failed to collect"
    /\ UNCHANGED <<route_direction, current_hour, playwright, browser, page, data,
                   primary, navigations, ParserVars>>

Next ==
    \/ RunAuto
    \/ RunWith
    \/ EnterPlaywright
    \/ Launch
    \/ NewContextAndPage
    \/ Goto
    \/ Extract
    \/ CloseAndReturn
    \/ Finish

Spec == Init /\ [][Next]_vars

-----------------------------------------------------------------------------
(* _extract_travel_data on its own, on every page of the model.            *)

InitExtract ==
    /\ pc = "extract"
    /\ route_direction = Some("home_to_office")
    /\ current_hour = None
    /\ playwright = "running"
    /\ browser = "open"
    /\ \/ \E cv \in CostVectors(MaxMatched) :
             \E o1 \in OutcomesOfCost(cv[1]), o2 \in OutcomesOfCost(cv[2]),
                o3 \in OutcomesOfCost(cv[3]), o4 \in OutcomesOfCost(cv[4]),
                o5 \in OutcomesOfCost(cv[5]) :
                 page = Some(SelectorPage(<<o1, o2, o3, o4, o5>>))
       \/ \E pg \in OtherPages : page = Some(pg)
    /\ data = None
    /\ primary = NoTrace
    /\ inserts = <<>>
    /\ navigations = 1
    /\ report = ""
    /\ arg_form = NoForm
    /\ arg_text = ""
    /\ parsed = None

SpecExtract == InitExtract /\ [][Extract]_vars

-----------------------------------------------------------------------------
(* extract_duration_minutes on its own, on every text of the model.        *)

InitParse ==
    /\ pc = "parse"
    /\ route_direction = None
    /\ current_hour = None
    /\ playwright = "none"
    /\ browser = "none"
    /\ page = None
    /\ data = None
    /\ primary = NoTrace
    /\ inserts = <<>>
    /\ navigations = 0
    /\ report = ""
    /\ arg_form \in Forms
    /\ arg_text = Render(arg_form)
    /\ parsed = None

Parse ==
    /\ pc = "parse"
    /\ parsed' = extract_duration_minutes(arg_text)
    /\ pc' = "parsed"
    /\ UNCHANGED <<route_direction, current_hour, playwright, browser, page, data,
                   primary, inserts, navigations, report, arg_form, arg_text>>

SpecParse == InitParse /\ [][Parse]_vars

-----------------------------------------------------------------------------
(* Properties of a run (checked under Spec).                               *)

\* C1: a run called with a direction other than 'home_to_office' and
\* 'office_to_home' ends at once: no Playwright scope, no browser, no
\* navigation, no page and no record handed to the persistence adapter.
C1_InvalidDirectionRejected ==
    (route_direction # None /\ route_direction[1] \notin {"home_to_office", "office_to_home"})
        => /\ pc = "done"
           /\ playwright = "none"
           /\ browser = "none"
           /\ navigations = 0
           /\ page = None
           /\ inserts = <<>>

C1_Witness ==
    pc = "done" /\ route_direction = Some("auto") /\ report = "invalid direction"

\* C2: the persistence adapter is given a record only once the scrape has
\* returned, and only when it returned a result; a scrape that returns no
\* result ends the run with no record given; no run gives more than one.
C2_SaveOnlyAfterResult ==
    /\ Len(inserts) <= 1
    /\ inserts # <<>> => (pc = "done" /\ data # None /\ navigations = 1)
    /\ (pc = "done" /\ data = None) => inserts = <<>>

C2_Witness ==
    pc = "done" /\ navigations = 1 /\ page # None /\ data = None
        /\ inserts = <<>> /\ report = "failed to collect"

\* C3: when scrape_google_maps has returned, on whatever outcome, the
\* Playwright scope it entered is stopped and the browser it launched is not
\* open any more.
C3_SessionReleased ==
    pc \in {"scraped", "done"} => (browser # "open" /\ playwright # "running")

C3_Witness ==
    pc = "scraped" /\ navigations = 1 /\ page = None /\ data = None
        /\ browser = "closed" /\ playwright = "stopped"

\* the texts _extract_travel_data can hand to extract_duration_minutes on a
\* page: the stripped element texts under the duration selectors, and the
\* joined groups of the fallback match
CandidateTexts(pg) ==
    UNION {IF pg.query[duration_selectors[i]].raises THEN {}
           ELSE {Strip(e.value) : e \in {x \in {pg.query[duration_selectors[i]].value[j] :
                                                   j \in DOMAIN pg.query[duration_selectors[i]].value} :
                                            ~x.raises}} :
           i \in DOMAIN duration_selectors}
    \cup (IF ~pg.body.raises /\ FirstTimeMatch(pg.body.value) # None
          THEN {JoinGroups(FirstTimeMatch(pg.body.value)[1])}
          ELSE {})

\* C4: an extraction result, and every record handed to the persistence
\* adapter, holds a duration_minutes that is an integer above zero, and
\* extract_duration_minutes returns a positive integer or None, never 0, on
\* every text the extraction can give it.
C4_PositiveDuration ==
    /\ data # None => (data[1].duration_minutes \in Nat /\ data[1].duration_minutes > 0)
    /\ \A i \in DOMAIN inserts :
          inserts[i].duration_minutes \in Nat /\ inserts[i].duration_minutes > 0
    /\ page # None =>
          \A t \in CandidateTexts(page[1]) :
              \/ extract_duration_minutes(t) = None
              \/ extract_duration_minutes(t)[1] > 0

C4_Witness ==
    /\ pc = "done"
    /\ primary.text = Some("0 min")
    /\ Len(inserts) = 1
    /\ inserts[1].duration_minutes = 70

\* C6: determine_direction_from_time returns 'home_to_office' at the hours 10
\* and 11, 'office_to_home' at the hours 16 and 17, and 'home_to_office' at
\* every other hour of 0..23.
C6_DirectionOfHour ==
    current_hour # None =>
        /\ current_hour[1] \in 0..23
        /\ route_direction =
              Some(IF current_hour[1] \in {10, 11} THEN "home_to_office"
                   ELSE IF current_hour[1] \in {16, 17} THEN "office_to_home"
                   ELSE "home_to_office")

C6_Witness ==
    pc = "scrape" /\ current_hour = Some(17) /\ route_direction = Some("office_to_home")

-----------------------------------------------------------------------------
(* Properties of extract_duration_minutes (checked under SpecParse).       *)

\* n*60 + m of a form, an absent component counting as 0
MinutesOfForm(f) ==
    (IF f.hours # None THEN f.hours[1] * 60 ELSE 0)
    + (IF f.minutes # None THEN f.minutes[1] ELSE 0)

HasComponent(f) == f.hours # None \/ f.minutes # None

HasDigit(t) == \E i \in 1..Len(t) : At(t, i) \in {"0", "1", "2", "3", "4", "5", "6", "7", "8", "9"}

\* C5 as stated: on every text of the form <n>h<m>min, or with one of the
\* two components only, inside any sentence, extract_duration_minutes returns
\* n*60+m.
C5_AsStated ==
    (pc = "parsed" /\ HasComponent(arg_form)) => parsed = Some(MinutesOfForm(arg_form))

\* C5, amended: on a text of the form <n>h<m>min, or with one of the two
\* components only, inside a sentence that holds no digit of its own,
\* extract_duration_minutes returns n*60+m when that is above zero and None
\* when it is zero.
C5_MinutesOfForm ==
    (pc = "parsed" /\ HasComponent(arg_form)
        /\ ~HasDigit(arg_form.pre) /\ ~HasDigit(arg_form.post))
        => parsed = IF MinutesOfForm(arg_form) > 0
                    THEN Some(MinutesOfForm(arg_form))
                    ELSE None

C5_Witness ==
    pc = "parsed" /\ arg_text = "about 1 Hours 10 min by two-wheeler" /\ parsed = Some(70)

-----------------------------------------------------------------------------
(* Properties of _extract_travel_data (checked under SpecExtract).         *)

\* the elements the i-th duration selector matches (none when the query raises)
MatchedBy(pg, i) ==
    IF pg.query[duration_selectors[i]].raises THEN <<>>
    ELSE pg.query[duration_selectors[i]].value

Positions(pg) ==
    {<<i, j>> : i \in DOMAIN duration_selectors, j \in 1..MaxMatched + 1}

\* element j of selector i has a text, and 'min' or 'hour' is in it
Accepted(pg, i, j) ==
    /\ j \in DOMAIN MatchedBy(pg, i)
    /\ ~MatchedBy(pg, i)[j].raises
    /\ \/ Contains(Lower(MatchedBy(pg, i)[j].value), "min")
       \/ Contains(Lower(MatchedBy(pg, i)[j].value), "hour")

\* no element before element j of selector i raised when its text was read
ReadUpTo(pg, i, j) == \A k \in 1..(j - 1) : ~MatchedBy(pg, i)[k].raises

\* selector-list order, then document order
Before(p, q) == p[1] < q[1] \/ (p[1] = q[1] /\ p[2] < q[2])

\* the candidate and query count that the first position of `among` stands for
ChoiceAmong(pg, among) ==
    IF among = {} THEN [text |-> None, queried |-> Len(duration_selectors)]
    ELSE LET first == CHOOSE p \in among : \A q \in among : q = p \/ Before(p, q)
         IN  [text |-> Some(Strip(MatchedBy(pg, first[1])[first[2]].value)),
              queried |-> first[1]]

\* C7 as stated: the candidate is the text of the first element, in selector
\* order and then document order, whose text holds 'min' or 'hour', and no
\* selector after that element's is queried.
C7_AsStated ==
    (pc = "close" /\ ~page[1].settle.raises)
        => primary = ChoiceAmong(page[1],
                        {p \in Positions(page[1]) : Accepted(page[1], p[1], p[2])})

\* C7, amended: the candidate is the stripped text of the first element, in
\* selector order and then document order, whose text holds 'min' or 'hour'
\* and before which no element of the same selector raised when read (a raise
\* gives up the rest of that selector); no selector after that element's is
\* queried, and with no such element every selector is queried and there is
\* no candidate.
C7_FirstAcceptedWins ==
    (pc = "close" /\ ~page[1].settle.raises)
        => primary = ChoiceAmong(page[1],
                        {p \in Positions(page[1]) :
                            Accepted(page[1], p[1], p[2]) /\ ReadUpTo(page[1], p[1], p[2])})

C7_Witness ==
    /\ pc = "close"
    /\ MatchedBy(page[1], 2) = <<Returns("Details"), Returns(" 1 Hour 5 MIN\n")>>
    /\ MatchedBy(page[1], 4) = <<Returns("25 min")>>
    /\ primary = [text |-> Some("1 Hour 5 MIN"), queried |-> 2]

\* C8: the traffic status of a result is Heavy when the lower-cased content
\* holds 'heavy traffic', else Moderate when it holds 'moderate traffic', else
\* Light when it holds 'light traffic', else Unknown, whether or not the
\* content was first tested for 'traffic'.
C8_TrafficPriority ==
    (pc = "close" /\ data # None)
        => data[1].traffic_status =
              (IF Contains(Lower(page[1].content.value), "heavy traffic") THEN "Heavy traffic"
               ELSE IF Contains(Lower(page[1].content.value), "moderate traffic")
                    THEN "Moderate traffic"
               ELSE IF Contains(Lower(page[1].content.value), "light traffic")
                    THEN "Light traffic"
               ELSE "Unknown")

C8_Witness ==
    /\ pc = "close"
    /\ page[1].content = Returns("<div>light traffic</div><div>heavy traffic</div>")
    /\ data # None
    /\ data[1].traffic_status = "Heavy traffic"

\* the primary strategy ended with a candidate that parses to minutes above 0
PrimaryUsable(pg) ==
    /\ PrimaryDuration(pg).text # None
    /\ Truthy(extract_duration_minutes(PrimaryDuration(pg).text[1]))

\* the body text can be read and its first fallback match parses to minutes
\* above 0
FallbackUsable(pg) ==
    /\ ~pg.body.raises
    /\ FirstTimeMatch(pg.body.value) # None
    /\ Truthy(extract_duration_minutes(JoinGroups(FirstTimeMatch(pg.body.value)[1])))

\* C9 as stated: once the settle wait is over, a result is returned whenever
\* the primary strategy or the body fallback yields a positive duration,
\* whichever other lookup (selector query, element text, distance, content)
\* failed.
C9_AsStated ==
    (pc = "close" /\ ~page[1].settle.raises
        /\ (PrimaryUsable(page[1]) \/ FallbackUsable(page[1])))
        => data # None

\* C10 as stated, on its example: with no usable selector-based duration and
\* the body text 'Travel is about 1 h 10 min by two-wheeler', the result has
\* duration_text '1 h 10 min' and duration_minutes 70.
C10_AsStated ==
    (pc = "close" /\ ~page[1].settle.raises /\ ~page[1].content.raises
        /\ ~PrimaryUsable(page[1]) /\ page[1].body = Returns(WheelerBody))
        => /\ data # None
           /\ data[1].duration_text = "1 h 10 min"
           /\ data[1].duration_minutes = 70

=============================================================================
